---- MODULE Spec2Model ----
(***************************************************************************)
(* A model of the ACME client of this repository:                          *)
(*   - acme/jws.go      the nonce pool and jws.post                        *)
(*   - acme/client.go   NewClient, Register, ObtainCertificates,           *)
(*                      getChallenges, solveChallenges, chooseSolvers,     *)
(*                      parseLinks                                         *)
(*   - api OrderService (unnamed/part_000): New, UpdateForCSR              *)
(* Process 0 is the calling thread (Register, AgreeToTos: one post after   *)
(* the other); processes 1..Len(domains) are the goroutines getChallenges  *)
(* starts, one per domain.                                                 *)
(***************************************************************************)
EXTENDS Integers, Sequences, FiniteSets, Bags, TLC

VARIABLES
    nonces,      \* jws.nonces, the pool shared by every caller of post
    pc,          \* position of each process
    snap,        \* the value of j.nonces a process read and has not written back yet
    drawn,       \* the nonces Nonce() has returned to the signer of each process
    resp,        \* the *http.Response the POST of each process returned
    postErr,     \* why post returned an error ("" when it did not)
    heads,       \* HEAD requests sent by the current call of post
    posts,       \* POST requests sent by the current call of post
    calls,       \* calls of post each process has started
    stored,      \* nonces whose append to j.nonces has been executed
    domains,     \* the argument of ObtainCertificates
    Solvers,     \* Client.Solvers: the challenge types a solver is registered for
    procStatus,  \* "running", or how the process ended: "fatal" (os.Exit), "panic"
    closed,      \* resc and errc are closed
    recvCount,   \* i of the collecting loop of getChallenges
    responses,   \* the slice getChallenges builds and returns
    errLog,      \* what the collecting loop has logged
    authz,       \* the authorization each goroutine decoded from its response
    decodeFailed,\* the decoder of the goroutine returned an error
    solveIdx,    \* position of the loop of solveChallenges in its argument
    solved,      \* the calls of solver.Solve made so far (a bag)
    solveErr,    \* what solveChallenges returned
    retErr,      \* what ObtainCertificates returned
    linkEntries, \* the link entries the server wrote, one sequence per Link header value
    linkOut,     \* what parseLinks returned for them
    orderDomains,\* the argument of OrderService.New
    orderOut,    \* the request OrderService.New posted, the answer, and what it returned
    csrIn,       \* the arguments of OrderService.UpdateForCSR
    finOut,      \* the message UpdateForCSR posted, the answer, and what it returned
    regOut       \* what Client.Register returned

postVars == <<nonces, pc, snap, drawn, resp, postErr, heads, posts, calls, stored>>
obtainVars == <<domains, Solvers, procStatus, closed, recvCount, responses, errLog,
                authz, decodeFailed, solveIdx, solved, solveErr, retErr>>

pureVars == <<linkEntries, linkOut, orderDomains, orderOut, csrIn, finOut, regOut>>

vars == <<postVars, obtainVars, pureVars>>

----------------------------------------------------------------------------
(* Bounds *)

MaxDomains == 2      \* domains handed to ObtainCertificates
MaxPool == 2         \* nonces in the pool when the sequential caller starts
MaxCalls == 2        \* calls of post the sequential caller makes
MaxChallenges == 3   \* challenges of an authorization given to solveChallenges
MaxCombinations == 2 \* combinations of such an authorization
MaxLinkValues == 2   \* Link header values of one response
MaxLinkEntries == 2  \* link entries in one header value
MaxOrderDomains == 3 \* domains handed to OrderService.New
MaxCsrLen == 2       \* bytes of the CSR handed to OrderService.UpdateForCSR

(* Program constants *)

StatusCreated == 201
StatusConflict == 409

Procs == 0 .. MaxDomains
Caller == 0

Statuses == {StatusCreated, StatusConflict}

----------------------------------------------------------------------------
(* Nonces.  The server issues every nonce once: a nonce is named by the    *)
(* request whose response carried it.                                      *)

NonceOf(p, c, k) == [by |-> p, call |-> c, kind |-> k]
InitNonce(i) == [by |-> -1, call |-> i, kind |-> "init"]
InitPool(n) == [i \in 1 .. n |-> InitNonce(i)]

Range(s) == {s[i] : i \in 1 .. Len(s)}
Front(s) == SubSeq(s, 1, Len(s) - 1)
Last(s) == s[Len(s)]

NoResp == [present |-> FALSE, status |-> 0, nonce |-> <<>>, link |-> <<>>]

\* the zero value of acme.Order, as far as the model reads it
ZeroOrder == [Status |-> "", Identifiers |-> <<>>]

\* OrderService.New has not been called
NoOrderOut ==
    [state |-> "pending", posted |-> <<>>,
     answer |-> [err |-> FALSE, Order |-> ZeroOrder, Location |-> ""],
     Order |-> ZeroOrder, Location |-> ""]

\* the zero value of acme.Order, as far as UpdateForCSR reads it
ZeroCsrOrder == [Status |-> "", Error |-> <<>>]

\* a Go error value: nil, or an interface value holding v
NilError == [isNil |-> TRUE, value |-> <<>>]
ErrorOf(v) == [isNil |-> FALSE, value |-> v]

\* OrderService.UpdateForCSR has not been called
NoCsrIn == [orderURL |-> "", csr |-> <<>>]
NoFinOut ==
    [state |-> "pending", posted |-> <<>>,
     answer |-> [err |-> FALSE, Order |-> ZeroCsrOrder],
     Order |-> ZeroCsrOrder, err |-> NilError]

\* Client.Register has not been called
NoRegOut == [state |-> "pending", reg |-> <<>>, err |-> ""]

\* the zero value of the authorization struct
ZeroAuthz == [Challenges |-> <<>>, Combinations |-> <<>>]

----------------------------------------------------------------------------
(* parseLinks (client.go).  A header value is a sequence of characters;    *)
(* the special characters are kept one by one and a run of ordinary        *)
(* characters (a URL, a word) is one element.                              *)

Quote == "\""
Space == " "

\* regexp "[<>]" with ReplaceAllString(link, "")
StripBrackets(s) == SelectSeq(s, LAMBDA c : c \notin {"<", ">"})

\* strings.Split(s, sep): the pieces between the separators, in order
RECURSIVE SplitFrom(_, _, _, _)
SplitFrom(s, sep, i, cur) ==
    IF i > Len(s) THEN <<cur>>
    ELSE IF s[i] = sep THEN <<cur>> \o SplitFrom(s, sep, i + 1, <<>>)
    ELSE SplitFrom(s, sep, i + 1, Append(cur, s[i]))

Split(s, sep) == SplitFrom(s, sep, 1, <<>>)

\* the first position from i on that holds no space (Len(s) + 1 when none)
RECURSIVE SkipSpaces(_, _)
SkipSpaces(s, i) ==
    IF i <= Len(s) /\ s[i] = Space THEN SkipSpaces(s, i + 1) ELSE i

MaxOf(S) == CHOOSE x \in S : \A y \in S : y <= x
MinOf(S) == CHOOSE x \in S : \A y \in S : x <= y

\* the closing quotes the second group of the pattern can end before, for
\* the '=' at position e
ClosingQuotes(s, e) ==
    LET qa == SkipSpaces(s, e + 1)
    IN  IF qa <= Len(s) /\ s[qa] = Quote
        THEN {qb \in qa + 2 .. Len(s) : s[qb] = Quote}
        ELSE {}

\* regexp `(.+) *= *"(.+)"` with FindStringSubmatch: <<>> when nothing
\* matches, else <<whole, group 1, group 2>>; both groups are greedy
FindStringSubmatch(s) ==
    LET eqs == {e \in 2 .. Len(s) : s[e] = "=" /\ ClosingQuotes(s, e) # {}}
    IN  IF eqs = {} THEN <<>>
        ELSE LET e == MaxOf(eqs)
                 qa == SkipSpaces(s, e + 1)
                 qb == MaxOf(ClosingQuotes(s, e))
             IN  <<SubSeq(s, 1, qb), SubSeq(s, 1, e - 1), SubSeq(s, qa + 1, qb - 1)>>

EmptyMap == [k \in {} |-> <<>>]
MapPut(m, k, v) == [x \in DOMAIN m \cup {k} |-> IF x = k THEN v ELSE m[x]]
\* a Go map lookup: the zero value "" for a key that is absent
MapGet(m, k) == IF k \in DOMAIN m THEN m[k] ELSE <<>>

\* parts[1] is read unconditionally: a value with no ';' is an index out of range
ParseLinksPanics(links) ==
    \E i \in 1 .. Len(links) : Len(Split(StripBrackets(links[i]), ";")) < 2

\* the body of the loop of parseLinks for one header value
ParseOneLink(linkMap, link) ==
    LET parts == Split(StripBrackets(link), ";")
        matches == FindStringSubmatch(parts[2])
    IN  IF Len(matches) > 0 THEN MapPut(linkMap, matches[3], parts[1]) ELSE linkMap

RECURSIVE ParseLinksFrom(_, _, _)
ParseLinksFrom(links, i, linkMap) ==
    IF i > Len(links) THEN linkMap
    ELSE ParseLinksFrom(links, i + 1, ParseOneLink(linkMap, links[i]))

parseLinks(links) == ParseLinksFrom(links, 1, EmptyMap)

\* How a server writes link entries [url, rel] into one header value
FormatEntry(e) == <<"<", e.url, ">", ";", "rel", "=", Quote, e.rel, Quote>>

RECURSIVE FormatValue(_)
FormatValue(es) ==
    IF Len(es) = 0 THEN <<>>
    ELSE IF Len(es) = 1 THEN FormatEntry(es[1])
    ELSE FormatEntry(es[1]) \o <<",", Space>> \o FormatValue(Tail(es))

FormatHeader(vs) == [i \in 1 .. Len(vs) |-> FormatValue(vs[i])]

----------------------------------------------------------------------------
(* jws.post (jws.go), one step per statement that accesses the shared      *)
(* j.nonces: the code takes no lock, so the test of its length, the read   *)
(* of a statement and the write that follows it are separate steps and     *)
(* other processes run in between.                                         *)

LinkNext == FormatHeader(<< <<[url |-> "u1", rel |-> "next"]>> >>)
LinkChoices == {<<>>, LinkNext}

\* what http.Post can return to call c of process p when it returns no error
Responses(p, c) ==
    {[present |-> TRUE, status |-> s, nonce |-> n, link |-> l] :
        s \in Statuses, n \in {<<>>, <<NonceOf(p, c, "post")>>}, l \in LinkChoices}

\* a getNonceFromResponse that keeps the nonce of a 201 response only
GetNonceFromResponseCreatedOnly(cur, old, r) ==
    IF r.nonce = <<>> \/ (r.present /\ r.status # StatusCreated)
    THEN cur ELSE Append(old, r.nonce[1])

\* getNonceFromResponse: cur is j.nonces now, old is the j.nonces append read
GetNonceFromResponse(cur, old, r) ==
    IF r.nonce = <<>> THEN cur ELSE Append(old, r.nonce[1])

\* jws.Nonce on a pool that is not empty: the last nonce and the rest
NoncePop(pool) == [nonce |-> Last(pool), rest |-> Front(pool)]

\* nothing runs once the process has exited
Running == procStatus = "running"

\* a post that starts over when the status is not 201
AfterHarvestRetry(r) == IF r.status # StatusCreated THEN "check" ELSE "postReturn"

\* where post goes once the response was harvested: it returns it
AfterHarvest(r) == "postReturn"

StartPost(p) ==
    /\ pc' = [pc EXCEPT ![p] = "check"]
    /\ calls' = [calls EXCEPT ![p] = @ + 1]
    /\ heads' = [heads EXCEPT ![p] = 0]
    /\ posts' = [posts EXCEPT ![p] = 0]
    /\ postErr' = [postErr EXCEPT ![p] = ""]
    /\ resp' = [resp EXCEPT ![p] = NoResp]
    /\ UNCHANGED <<nonces, snap, drawn, stored>>

\* if len(j.nonces) == 0
PostCheck(p) ==
    /\ Running
    /\ pc[p] = "check"
    /\ pc' = [pc EXCEPT ![p] = IF Len(nonces) = 0 THEN "head" ELSE "sign"]
    /\ UNCHANGED <<nonces, snap, drawn, resp, postErr, heads, posts, calls, stored>>
    /\ UNCHANGED <<obtainVars, pureVars>>

\* a getNonce whose failure does not stop post: the POST is sent all the same
GetNonceThenPost(p) ==
    /\ Running
    /\ pc[p] = "head"
    /\ heads' = [heads EXCEPT ![p] = @ + 1]
    /\ \E outcome \in {"error", "noheader", "nonce"} :
         IF outcome = "nonce"
         THEN /\ snap' = [snap EXCEPT ![p] = nonces]
              /\ pc' = [pc EXCEPT ![p] = "headAppend"]
              /\ UNCHANGED postErr
         ELSE /\ postErr' = [postErr EXCEPT ![p] = "nonce"]
              /\ pc' = [pc EXCEPT ![p] = "send"]
              /\ UNCHANGED snap
    /\ UNCHANGED <<nonces, drawn, resp, posts, calls, stored>>
    /\ UNCHANGED <<obtainVars, pureVars>>

\* j.getNonce(url): http.Head, then getNonceFromResponse up to its read of j.nonces
GetNonce(p) ==
    /\ Running
    /\ pc[p] = "head"
    /\ heads' = [heads EXCEPT ![p] = @ + 1]
    /\ \E outcome \in {"error", "noheader", "nonce"} :
         IF outcome = "nonce"
         THEN /\ snap' = [snap EXCEPT ![p] = nonces]
              /\ pc' = [pc EXCEPT ![p] = "headAppend"]
              /\ UNCHANGED postErr
         ELSE /\ postErr' = [postErr EXCEPT ![p] = "nonce"]
              /\ pc' = [pc EXCEPT ![p] = "postFail"]
              /\ UNCHANGED snap
    /\ UNCHANGED <<nonces, drawn, resp, posts, calls, stored>>
    /\ UNCHANGED <<obtainVars, pureVars>>

\* j.nonces = append(j.nonces, nonce) of getNonce: the write
HeadAppend(p) ==
    /\ Running
    /\ pc[p] = "headAppend"
    /\ LET r == [NoResp EXCEPT !.nonce = <<NonceOf(p, calls[p], "head")>>]
       IN  /\ nonces' = GetNonceFromResponse(nonces, snap[p], r)
           /\ stored' = stored \cup Range(r.nonce)
    /\ snap' = [snap EXCEPT ![p] = <<>>]
    /\ pc' = [pc EXCEPT ![p] = "sign"]
    /\ UNCHANGED <<drawn, resp, postErr, heads, posts, calls>>
    /\ UNCHANGED <<obtainVars, pureVars>>

\* signContent: the signer calls j.Nonce(); `if len(j.nonces) == 0` returns the
\* error, which Sign and post hand on (the key was validated by NewClient, so
\* nothing else makes the signer fail)
NonceCheck(p) ==
    /\ Running
    /\ pc[p] = "sign"
    /\ IF Len(nonces) = 0
       THEN /\ postErr' = [postErr EXCEPT ![p] = "sign"]
            /\ pc' = [pc EXCEPT ![p] = "postFail"]
       ELSE /\ pc' = [pc EXCEPT ![p] = "nonceRead"]
            /\ UNCHANGED postErr
    /\ UNCHANGED <<nonces, snap, drawn, resp, heads, posts, calls, stored, procStatus>>
    /\ UNCHANGED <<domains, Solvers, closed, recvCount, responses, errLog, authz,
                   decodeFailed, solveIdx, solved, solveErr, retErr>>
    /\ UNCHANGED pureVars

\* nonce, j.nonces = j.nonces[len-1], j.nonces[:len-1]: the read of the right-hand
\* side; on a pool emptied since the test, j.nonces[-1] is an index out of range
NonceRead(p) ==
    /\ Running
    /\ pc[p] = "nonceRead"
    /\ IF Len(nonces) = 0
       THEN /\ procStatus' = "panic"
            /\ UNCHANGED <<snap, pc>>
       ELSE /\ snap' = [snap EXCEPT ![p] = nonces]
            /\ pc' = [pc EXCEPT ![p] = "nonceWrite"]
            /\ UNCHANGED procStatus
    /\ UNCHANGED <<nonces, drawn, resp, postErr, heads, posts, calls, stored>>
    /\ UNCHANGED <<domains, Solvers, closed, recvCount, responses, errLog, authz,
                   decodeFailed, solveIdx, solved, solveErr, retErr>>
    /\ UNCHANGED pureVars

\* nonce, j.nonces = j.nonces[len-1], j.nonces[:len-1]: the write
NonceWrite(p) ==
    /\ Running
    /\ pc[p] = "nonceWrite"
    /\ nonces' = NoncePop(snap[p]).rest
    /\ drawn' = [drawn EXCEPT ![p] = Append(@, NoncePop(snap[p]).nonce)]
    /\ snap' = [snap EXCEPT ![p] = <<>>]
    /\ pc' = [pc EXCEPT ![p] = "send"]
    /\ UNCHANGED <<resp, postErr, heads, posts, calls, stored>>
    /\ UNCHANGED <<obtainVars, pureVars>>

\* http.Post, then getNonceFromResponse up to its read of j.nonces
HttpPost(p) ==
    /\ Running
    /\ pc[p] = "send"
    /\ posts' = [posts EXCEPT ![p] = @ + 1]
    /\ \/ /\ postErr' = [postErr EXCEPT ![p] = "transport"]
          /\ pc' = [pc EXCEPT ![p] = "postFail"]
          /\ UNCHANGED <<resp, snap>>
       \/ \E r \in Responses(p, calls[p]) :
            /\ resp' = [resp EXCEPT ![p] = r]
            /\ snap' = [snap EXCEPT ![p] = IF r.nonce = <<>> THEN <<>> ELSE nonces]
            /\ pc' = [pc EXCEPT ![p] = "harvest"]
            /\ UNCHANGED postErr
    /\ UNCHANGED <<nonces, drawn, heads, calls, stored>>
    /\ UNCHANGED <<obtainVars, pureVars>>

\* j.getNonceFromResponse(resp) of post: the write, then return resp, err
Harvest(p) ==
    /\ Running
    /\ pc[p] = "harvest"
    /\ nonces' = GetNonceFromResponse(nonces, snap[p], resp[p])
    /\ stored' = stored \cup Range(resp[p].nonce)
    /\ snap' = [snap EXCEPT ![p] = <<>>]
    /\ pc' = [pc EXCEPT ![p] = AfterHarvest(resp[p])]
    /\ UNCHANGED <<drawn, resp, postErr, heads, posts, calls>>
    /\ UNCHANGED <<obtainVars, pureVars>>

----------------------------------------------------------------------------
(* The calling thread alone: Register, AgreeToTos, one post after the      *)
(* other on the same jws.                                                  *)

InitPost(pool, start) ==
    /\ nonces = pool
    /\ pc = [p \in Procs |-> IF p = Caller THEN start ELSE "unused"]
    /\ snap = [p \in Procs |-> <<>>]
    /\ drawn = [p \in Procs |-> <<>>]
    /\ resp = [p \in Procs |-> NoResp]
    /\ postErr = [p \in Procs |-> ""]
    /\ heads = [p \in Procs |-> 0]
    /\ posts = [p \in Procs |-> 0]
    /\ calls = [p \in Procs |-> 0]
    /\ stored = Range(pool)

InitObtainIdle ==
    /\ domains = <<>>
    /\ Solvers = {}
    /\ procStatus = "running"
    /\ closed = FALSE
    /\ recvCount = 0
    /\ responses = <<>>
    /\ errLog = {}
    /\ authz = [p \in Procs |-> ZeroAuthz]
    /\ decodeFailed = [p \in Procs |-> FALSE]
    /\ solveIdx = 0
    /\ solved = EmptyBag
    /\ solveErr = <<>>
    /\ retErr = <<>>

InitPureIdle ==
    /\ linkEntries = <<>>
    /\ linkOut = [done |-> FALSE, panic |-> FALSE, map |-> EmptyMap]
    /\ orderDomains = <<>>
    /\ orderOut = NoOrderOut
    /\ csrIn = NoCsrIn
    /\ finOut = NoFinOut
    /\ regOut = NoRegOut

InitSeq ==
    /\ \E n \in 0 .. MaxPool : InitPost(InitPool(n), "idle")
    /\ InitObtainIdle
    /\ InitPureIdle

\* c.jws.post(...) of Register or AgreeToTos
SeqCall ==
    /\ pc[Caller] = "idle"
    /\ calls[Caller] < MaxCalls
    /\ StartPost(Caller)
    /\ UNCHANGED <<obtainVars, pureVars>>

\* post has returned to Register or AgreeToTos
SeqReturn ==
    /\ pc[Caller] \in {"postReturn", "postFail"}
    /\ pc' = [pc EXCEPT ![Caller] = "idle"]
    /\ UNCHANGED <<nonces, snap, drawn, resp, postErr, heads, posts, calls, stored>>
    /\ UNCHANGED <<obtainVars, pureVars>>

NextSeq ==
    \/ SeqCall
    \/ PostCheck(Caller)
    \/ GetNonce(Caller)
    \/ HeadAppend(Caller)
    \/ NonceCheck(Caller)
    \/ NonceRead(Caller)
    \/ NonceWrite(Caller)
    \/ HttpPost(Caller)
    \/ Harvest(Caller)
    \/ SeqReturn

SpecSeq == InitSeq /\ [][NextSeq]_vars

----------------------------------------------------------------------------
(* chooseSolvers and solveChallenges (client.go).  Challenge indices count *)
(* from 0, as in Go and on the wire.                                       *)

Types == {"simpleHttp", "dvsni"}

\* auth.Challenges[i].Type
ChallengeType(auth, i) == auth.Challenges[i + 1]

NilSolvers == [isNil |-> TRUE, m |-> EmptyMap]

\* the solvers map chooseSolvers builds for one combination: `for i := range
\* combination` yields the positions 0 .. len-1 of the combination
SolversFor(auth, combination, registered) ==
    LET keys == {i \in 0 .. Len(combination) - 1 : ChallengeType(auth, i) \in registered}
    IN  [i \in keys |-> ChallengeType(auth, i)]

RECURSIVE ChooseFrom(_, _, _)
ChooseFrom(auth, k, registered) ==
    IF k > Len(auth.Combinations) THEN NilSolvers
    ELSE LET solvers == SolversFor(auth, auth.Combinations[k], registered)
         IN  IF Cardinality(DOMAIN solvers) = Len(auth.Combinations[k])
             THEN [isNil |-> FALSE, m |-> solvers]
             ELSE ChooseFrom(auth, k + 1, registered)

\* a solver is named by the type it is registered for
chooseSolvers(auth, registered) == ChooseFrom(auth, 1, registered)

\* the calls solver.Solve(authz.Body.Challenges[i], authz.Domain) of one authorization
SolveCalls(res, solvers) ==
    {[domain |-> res.Domain, index |-> i, ctype |-> ChallengeType(res.Body, i),
      solver |-> solvers[i]] : i \in DOMAIN solvers}

\* what ObtainCertificates returns, given what solveChallenges returned
ObtainCertificatesResult(err) == <<>>

----------------------------------------------------------------------------
(* ObtainCertificates: getChallenges starts one goroutine per domain, each *)
(* posting on the shared jws and sending on the unbuffered resc and errc;  *)
(* the calling thread receives len(domains) messages, closes both channels *)
(* and hands the slice to solveChallenges.                                 *)

DomainNames == <<"a.example.com", "b.example.com", "c.example.com", "d.example.com">>

Goroutines == 1 .. Len(domains)

BodyHttp == [Challenges |-> <<"simpleHttp">>, Combinations |-> << <<0>> >>]
BodyDvsni == [Challenges |-> <<"dvsni">>, Combinations |-> << <<0>> >>]
Bodies == {BodyHttp, BodyDvsni}

\* where a goroutine is blocked in a send on errc, and on resc
ErrSends == {"postFail", "sendStatusErr", "sendDecodeErr"}
SendStates == ErrSends \cup {"sendRes"}

\* a goroutine that stays at its send on resc once the resource was received
AfterSendResend(at) ==
    CASE at = "postFail" -> "done"
      [] at = "sendStatusErr" -> "links"
      [] at = "sendDecodeErr" -> "sendRes"
      [] at = "sendRes" -> "sendRes"

\* where the goroutine goes after the send, by where it was blocked
AfterSend(at) ==
    CASE at = "postFail" -> "done"
      [] at = "sendStatusErr" -> "links"
      [] at = "sendDecodeErr" -> "sendRes"
      [] at = "sendRes" -> "done"

InitObtain ==
    /\ \E n \in 0 .. 1 : InitPost(InitPool(n), "collect")
    /\ \E n \in 1 .. MaxDomains : domains = SubSeq(DomainNames, 1, n)
    /\ Solvers = {"simpleHttp"}
    /\ procStatus = "running"
    /\ closed = FALSE
    /\ recvCount = 0
    /\ responses = <<>>
    /\ errLog = {}
    /\ authz = [p \in Procs |-> ZeroAuthz]
    /\ decodeFailed = [p \in Procs |-> FALSE]
    /\ solveIdx = 0
    /\ solved = EmptyBag
    /\ solveErr = <<>>
    /\ retErr = <<>>
    /\ InitPureIdle

\* go func(domain string): json.Marshal of the request, then c.jws.post
GoStart(g) ==
    /\ Running
    /\ g \in Goroutines
    /\ pc[g] = "unused"
    /\ StartPost(g)
    /\ UNCHANGED <<obtainVars, pureVars>>

\* if resp.StatusCode != http.StatusCreated { errc <- ... }
GoStatus(g) ==
    /\ Running
    /\ g \in Goroutines
    /\ pc[g] = "postReturn"
    /\ pc' = [pc EXCEPT ![g] = IF resp[g].status # StatusCreated
                               THEN "sendStatusErr" ELSE "links"]
    /\ UNCHANGED <<nonces, snap, drawn, resp, postErr, heads, posts, calls, stored>>
    /\ UNCHANGED <<obtainVars, pureVars>>

\* links := parseLinks(resp.Header["Link"]); Fatalln when links["next"] is ""
GoLinks(g) ==
    /\ Running
    /\ g \in Goroutines
    /\ pc[g] = "links"
    /\ IF ParseLinksPanics(resp[g].link)
       THEN /\ procStatus' = "panic"
            /\ UNCHANGED pc
       ELSE IF MapGet(parseLinks(resp[g].link), <<"next">>) = <<>>
       THEN /\ procStatus' = "fatal"
            /\ UNCHANGED pc
       ELSE /\ pc' = [pc EXCEPT ![g] = "decode"]
            /\ UNCHANGED procStatus
    /\ UNCHANGED <<nonces, snap, drawn, resp, postErr, heads, posts, calls, stored>>
    /\ UNCHANGED <<domains, Solvers, closed, recvCount, responses, errLog, authz,
                   decodeFailed, solveIdx, solved, solveErr, retErr>>
    /\ UNCHANGED pureVars

\* decoder.Decode(&authz): the body is read here; an error is sent on errc
GoDecode(g) ==
    /\ Running
    /\ g \in Goroutines
    /\ pc[g] = "decode"
    /\ \/ /\ decodeFailed' = [decodeFailed EXCEPT ![g] = TRUE]
          /\ pc' = [pc EXCEPT ![g] = "sendDecodeErr"]
          /\ UNCHANGED authz
       \/ \E b \in Bodies :
            /\ authz' = [authz EXCEPT ![g] = b]
            /\ pc' = [pc EXCEPT ![g] = "sendRes"]
            /\ UNCHANGED decodeFailed
    /\ UNCHANGED <<nonces, snap, drawn, resp, postErr, heads, posts, calls, stored>>
    /\ UNCHANGED <<domains, Solvers, procStatus, closed, recvCount, responses, errLog,
                   solveIdx, solved, solveErr, retErr>>
    /\ UNCHANGED pureVars

\* &authorizationResource{Body: authz, NewCertURL: links["next"], Domain: domain}
Resource(g) ==
    [Body |-> authz[g], NewCertURL |-> MapGet(parseLinks(resp[g].link), <<"next">>),
     Domain |-> domains[g]]

\* one iteration of the collecting loop: the select receives from a goroutine
\* blocked in a send on resc or errc
Receive(g) ==
    /\ Running
    /\ g \in Goroutines
    /\ pc[Caller] = "collect"
    /\ recvCount < Len(domains)
    /\ pc[g] \in SendStates
    /\ IF pc[g] = "sendRes"
       THEN /\ responses' = Append(responses, Resource(g))
            /\ UNCHANGED errLog
       ELSE /\ errLog' = errLog \cup {[from |-> g, at |-> pc[g]]}
            /\ UNCHANGED responses
    /\ recvCount' = recvCount + 1
    /\ pc' = [pc EXCEPT ![g] = AfterSend(pc[g])]
    /\ UNCHANGED <<nonces, snap, drawn, resp, postErr, heads, posts, calls, stored>>
    /\ UNCHANGED <<domains, Solvers, procStatus, closed, authz, decodeFailed,
                   solveIdx, solved, solveErr, retErr>>
    /\ UNCHANGED pureVars

\* close(resc); close(errc); return responses
CloseChannels ==
    /\ Running
    /\ pc[Caller] = "collect"
    /\ recvCount = Len(domains)
    /\ closed' = TRUE
    /\ solveIdx' = 1
    /\ pc' = [pc EXCEPT ![Caller] = "solve"]
    /\ UNCHANGED <<nonces, snap, drawn, resp, postErr, heads, posts, calls, stored>>
    /\ UNCHANGED <<domains, Solvers, procStatus, recvCount, responses, errLog, authz,
                   decodeFailed, solved, solveErr, retErr>>
    /\ UNCHANGED pureVars

\* a send on a closed channel panics, and so does a send blocked when it is closed
SendOnClosed(g) ==
    /\ Running
    /\ g \in Goroutines
    /\ closed
    /\ pc[g] \in SendStates
    /\ procStatus' = "panic"
    /\ UNCHANGED postVars
    /\ UNCHANGED <<domains, Solvers, closed, recvCount, responses, errLog, authz,
                   decodeFailed, solveIdx, solved, solveErr, retErr>>
    /\ UNCHANGED pureVars

\* one iteration of the loop of solveChallenges, or its return nil after the last
SolveNext ==
    /\ Running
    /\ pc[Caller] = "solve"
    /\ IF solveIdx > Len(responses)
       THEN /\ pc' = [pc EXCEPT ![Caller] = "return"]
            /\ UNCHANGED <<solveIdx, solved, solveErr>>
       ELSE LET res == responses[solveIdx]
                solvers == chooseSolvers(res.Body, Solvers)
            IN  IF ~solvers.isNil
                THEN /\ solved' = solved (+) SetToBag(SolveCalls(res, solvers.m))
                     /\ solveIdx' = solveIdx + 1
                     /\ UNCHANGED <<pc, solveErr>>
                ELSE /\ solveErr' = <<res.Domain>>
                     /\ pc' = [pc EXCEPT ![Caller] = "return"]
                     /\ UNCHANGED <<solveIdx, solved>>
    /\ UNCHANGED <<nonces, snap, drawn, resp, postErr, heads, posts, calls, stored>>
    /\ UNCHANGED <<domains, Solvers, procStatus, closed, recvCount, responses, errLog,
                   authz, decodeFailed, retErr>>
    /\ UNCHANGED pureVars

\* c.solveChallenges(challenges); return nil
ObtainReturn ==
    /\ Running
    /\ pc[Caller] = "return"
    /\ retErr' = ObtainCertificatesResult(solveErr)
    /\ pc' = [pc EXCEPT ![Caller] = "done"]
    /\ UNCHANGED <<nonces, snap, drawn, resp, postErr, heads, posts, calls, stored>>
    /\ UNCHANGED <<domains, Solvers, procStatus, closed, recvCount, responses, errLog,
                   authz, decodeFailed, solveIdx, solved, solveErr>>
    /\ UNCHANGED pureVars

Next ==
    \/ \E g \in Procs \ {Caller} : GoStart(g)
    \/ \E g \in Procs \ {Caller} : PostCheck(g)
    \/ \E g \in Procs \ {Caller} : GetNonce(g)
    \/ \E g \in Procs \ {Caller} : HeadAppend(g)
    \/ \E g \in Procs \ {Caller} : NonceCheck(g)
    \/ \E g \in Procs \ {Caller} : NonceRead(g)
    \/ \E g \in Procs \ {Caller} : NonceWrite(g)
    \/ \E g \in Procs \ {Caller} : HttpPost(g)
    \/ \E g \in Procs \ {Caller} : Harvest(g)
    \/ \E g \in Procs \ {Caller} : GoStatus(g)
    \/ \E g \in Procs \ {Caller} : GoLinks(g)
    \/ \E g \in Procs \ {Caller} : GoDecode(g)
    \/ \E g \in Procs \ {Caller} : Receive(g)
    \/ \E g \in Procs \ {Caller} : SendOnClosed(g)
    \/ CloseChannels
    \/ SolveNext
    \/ ObtainReturn

Spec == InitObtain /\ [][Next]_vars

----------------------------------------------------------------------------
(* solveChallenges on one authorization of any shape the server can send:  *)
(* the state after getChallenges returned it.                              *)

SeqsUpTo(S, n) == UNION {[1 .. k -> S] : k \in 0 .. n}

\* the elements of a set of numbers in increasing order
RECURSIVE SortedSeq(_)
SortedSeq(S) ==
    IF S = {} THEN <<>>
    ELSE LET m == MinOf(S) IN <<m>> \o SortedSeq(S \ {m})

\* the combinations over n challenges: increasing lists of indices below n
CombinationsOver(n) == {SortedSeq(S) : S \in SUBSET (0 .. n - 1) \ {{}}}

\* the authorizations with n challenges
AuthorizationsOver(n) ==
    {[Challenges |-> ch, Combinations |-> co] :
        ch \in [1 .. n -> Types],
        co \in SeqsUpTo(CombinationsOver(n), MaxCombinations)}

InitChoose ==
    /\ InitPost(<<>>, "solve")
    /\ domains = SubSeq(DomainNames, 1, 1)
    /\ Solvers \in SUBSET Types
    /\ procStatus = "running"
    /\ closed = TRUE
    /\ recvCount = 1
    /\ \E n \in 1 .. MaxChallenges : \E a \in AuthorizationsOver(n) :
         responses = <<[Body |-> a, NewCertURL |-> <<"u1">>, Domain |-> DomainNames[1]]>>
    /\ errLog = {}
    /\ authz = [p \in Procs |-> ZeroAuthz]
    /\ decodeFailed = [p \in Procs |-> FALSE]
    /\ solveIdx = 1
    /\ solved = EmptyBag
    /\ solveErr = <<>>
    /\ retErr = <<>>
    /\ InitPureIdle

NextChoose == SolveNext \/ ObtainReturn

SpecChoose == InitChoose /\ [][NextChoose]_vars

----------------------------------------------------------------------------
(* parseLinks on the Link headers of one response.                         *)

LinkUrls == {"u1", "u2"}
LinkRels == {"next", "terms-of-service"}
LinkEntry == [url : LinkUrls, rel : LinkRels]

\* resp.Header["Link"]
linkHeader == FormatHeader(linkEntries)

InitLinks ==
    /\ InitPost(<<>>, "unused")
    /\ InitObtainIdle
    /\ linkEntries \in
         UNION {[1 .. k -> UNION {[1 .. j -> LinkEntry] : j \in 1 .. MaxLinkEntries}] :
                k \in 0 .. MaxLinkValues}
    /\ linkOut = [done |-> FALSE, panic |-> FALSE, map |-> EmptyMap]
    /\ orderDomains = <<>>
    /\ orderOut = NoOrderOut
    /\ csrIn = NoCsrIn
    /\ finOut = NoFinOut
    /\ regOut = NoRegOut

ParseLinksCall ==
    /\ ~linkOut.done
    /\ linkOut' = IF ParseLinksPanics(linkHeader)
                  THEN [done |-> TRUE, panic |-> TRUE, map |-> EmptyMap]
                  ELSE [done |-> TRUE, panic |-> FALSE, map |-> parseLinks(linkHeader)]
    /\ UNCHANGED <<postVars, obtainVars, linkEntries, orderDomains, orderOut, csrIn, finOut, regOut>>

NextLinks == ParseLinksCall

SpecLinks == InitLinks /\ [][NextLinks]_vars

----------------------------------------------------------------------------
(* OrderService.New (api).                                                 *)

OrderDomainNames == {"a.example.com", "A.example.com", "b.example.com"}

\* strings.ToLower on the domain names of the model
ToLower(d) == IF d = "A.example.com" THEN "a.example.com" ELSE d

\* s without the elements that occur earlier in it
RECURSIVE Dedup(_)
Dedup(s) ==
    IF Len(s) = 0 THEN <<>>
    ELSE LET front == Dedup(Front(s))
         IN  IF Last(s) \in Range(front) THEN front ELSE Append(front, Last(s))

\* an OrderService.New that lower-cases the domains and drops the repeated ones
IdentifiersNormalised(doms) ==
    LET ds == Dedup([i \in 1 .. Len(doms) |-> ToLower(doms[i])])
    IN  [i \in 1 .. Len(ds) |-> [Type |-> "dns", Value |-> ds[i]]]

\* var identifiers []acme.Identifier; one append per element of domains
Identifiers(doms) == [i \in 1 .. Len(doms) |-> [Type |-> "dns", Value |-> doms[i]]]

\* what the server can answer to the order request: the order in the body
\* and the Location header
OrderResponses(req) ==
    {[Order |-> [Status |-> st, Identifiers |-> req.Identifiers], Location |-> loc] :
        st \in {"pending", "ready"}, loc \in {"", "https://ca/order/1"}}

\* o.core.post(NewOrderURL, orderReq, &order): an error, or the response
\* whose body it decoded into order
CorePost(req) ==
    {[err |-> TRUE, Order |-> ZeroOrder, Location |-> ""]}
        \cup {[err |-> FALSE, Order |-> r.Order, Location |-> r.Location] :
                r \in OrderResponses(req)}

\* acme.ExtendedOrder{Order: order, Location: resp.Header.Get("Location")}
ExtendedOrder(r) == [Order |-> r.Order, Location |-> r.Location]

InitOrder ==
    /\ InitPost(<<>>, "unused")
    /\ InitObtainIdle
    /\ linkEntries = <<>>
    /\ linkOut = [done |-> FALSE, panic |-> FALSE, map |-> EmptyMap]
    /\ orderDomains \in SeqsUpTo(OrderDomainNames, MaxOrderDomains)
    /\ orderOut = NoOrderOut
    /\ csrIn = NoCsrIn
    /\ finOut = NoFinOut
    /\ regOut = NoRegOut

OrderNew ==
    /\ orderOut.state = "pending"
    /\ LET orderReq == [Identifiers |-> Identifiers(orderDomains)]
       IN  \E r \in CorePost(orderReq) :
             orderOut' = IF r.err
                         THEN [state |-> "err", posted |-> orderReq.Identifiers,
                               answer |-> r, Order |-> ZeroOrder, Location |-> ""]
                         ELSE [state |-> "ok", posted |-> orderReq.Identifiers,
                               answer |-> r, Order |-> ExtendedOrder(r).Order,
                               Location |-> ExtendedOrder(r).Location]
    /\ UNCHANGED <<postVars, obtainVars, linkEntries, linkOut, orderDomains, csrIn, finOut, regOut>>

NextOrder == OrderNew

SpecOrder == InitOrder /\ [][NextOrder]_vars

----------------------------------------------------------------------------
(* OrderService.UpdateForCSR (api).                                        *)

CsrBytes == {0, 77, 255}
OrderURLs == {"https://ca/order/1/finalize", "https://ca/order/2/finalize"}

StatusInvalid == "invalid"
OrderStatuses == {"pending", "ready", "processing", "valid", StatusInvalid}
Problems == {"urn:ietf:params:acme:error:badCSR"}

\* the alphabet of base64.RawURLEncoding
Base64Alphabet ==
    <<"A", "B", "C", "D", "E", "F", "G", "H", "I", "J", "K", "L", "M", "N", "O", "P",
      "Q", "R", "S", "T", "U", "V", "W", "X", "Y", "Z", "a", "b", "c", "d", "e", "f",
      "g", "h", "i", "j", "k", "l", "m", "n", "o", "p", "q", "r", "s", "t", "u", "v",
      "w", "x", "y", "z", "0", "1", "2", "3", "4", "5", "6", "7", "8", "9", "-", "_">>

\* the 6-bit groups of the bytes b, the last one filled with zero bits
RECURSIVE Sextets(_)
Sextets(b) ==
    CASE Len(b) = 0 -> <<>>
      [] Len(b) = 1 -> <<b[1] \div 4, (b[1] % 4) * 16>>
      [] Len(b) = 2 -> <<b[1] \div 4, (b[1] % 4) * 16 + b[2] \div 16, (b[2] % 16) * 4>>
      [] OTHER -> <<b[1] \div 4, (b[1] % 4) * 16 + b[2] \div 16,
                    (b[2] % 16) * 4 + b[3] \div 64, b[3] % 64>>
                      \o Sextets(SubSeq(b, 4, Len(b)))

\* base64.RawURLEncoding.EncodeToString(csr): no padding
EncodeToString(b) == [i \in 1 .. Len(Sextets(b)) |-> Base64Alphabet[Sextets(b)[i] + 1]]

\* acme.CSRMessage{Csr: ...}
CSRMessage(csr) == [Csr |-> EncodeToString(csr)]

\* the orders the server can answer to the finalize request: any status, with
\* or without a problem document in the error field
FinalizeResponses(msg) ==
    {[Status |-> st, Error |-> e] :
        st \in OrderStatuses, e \in {<<>>} \cup {<<p>> : p \in Problems}}

\* o.core.post(orderURL, csrMsg, &order): an error, or the order it decoded
\* from the body of the one response
CorePostCsr(url, msg) ==
    {[err |-> TRUE, Order |-> ZeroCsrOrder]}
        \cup {[err |-> FALSE, Order |-> o] : o \in FinalizeResponses(msg)}

\* an UpdateForCSR that hands on whatever order the response held
UpdateForCSRUnchecked(r) ==
    IF r.err THEN [Order |-> ZeroCsrOrder, err |-> ErrorOf(<<"post">>)]
    ELSE [Order |-> r.Order, err |-> NilError]

\* what UpdateForCSR returns, given what o.core.post returned: the error of
\* post; order.Error converted to error when the status is invalid; else the order
UpdateForCSRReturn(r) ==
    IF r.err THEN [Order |-> ZeroCsrOrder, err |-> ErrorOf(<<"post">>)]
    ELSE IF r.Order.Status = StatusInvalid
    THEN [Order |-> ZeroCsrOrder, err |-> ErrorOf(r.Order.Error)]
    ELSE [Order |-> r.Order, err |-> NilError]

InitFinalize ==
    /\ InitPost(<<>>, "unused")
    /\ InitObtainIdle
    /\ linkEntries = <<>>
    /\ linkOut = [done |-> FALSE, panic |-> FALSE, map |-> EmptyMap]
    /\ orderDomains = <<>>
    /\ orderOut = NoOrderOut
    /\ \E url \in OrderURLs : \E csr \in SeqsUpTo(CsrBytes, MaxCsrLen) :
         csrIn = [orderURL |-> url, csr |-> csr]
    /\ finOut = NoFinOut
    /\ regOut = NoRegOut

UpdateForCSR ==
    /\ finOut.state = "pending"
    /\ LET csrMsg == CSRMessage(csrIn.csr)
       IN  \E r \in CorePostCsr(csrIn.orderURL, csrMsg) :
             finOut' = [state |-> "done", posted |-> csrMsg.Csr, answer |-> r,
                        Order |-> UpdateForCSRReturn(r).Order,
                        err |-> UpdateForCSRReturn(r).err]
    /\ UNCHANGED <<postVars, obtainVars, linkEntries, linkOut, orderDomains, orderOut,
                   csrIn, regOut>>

NextFinalize == UpdateForCSR

SpecFinalize == InitFinalize /\ [][NextFinalize]_vars

----------------------------------------------------------------------------
(* Client.Register: one post on the jws of the client, then the reading of *)
(* its response.                                                           *)

\* resp.Header.Get("Location")
Locations == {"", "https://ca/reg/1"}

\* what Register returns once post returned the response r: decodes says
\* whether the body decoded into a Registration, location is the Location header
RegisterReturn(r, decodes, location) ==
    IF r.status = StatusConflict THEN [reg |-> <<>>, err |-> "already registered"]
    ELSE IF ~decodes THEN [reg |-> <<>>, err |-> "decode"]
    ELSE LET links == parseLinks(r.link)
         IN  IF MapGet(links, <<"next">>) = <<>>
             THEN [reg |-> <<>>, err |-> "not enough information"]
             ELSE [reg |-> <<[URI |-> location,
                              TosURL |-> MapGet(links, <<"terms-of-service">>),
                              NewAuthzURL |-> MapGet(links, <<"next">>)]>>,
                   err |-> ""]

InitRegister ==
    /\ \E n \in 0 .. MaxPool : InitPost(InitPool(n), "idle")
    /\ InitObtainIdle
    /\ InitPureIdle

\* Register up to its call c.jws.post(c.regURL, jsonBytes)
RegisterCall ==
    /\ Running
    /\ pc[Caller] = "idle"
    /\ regOut.state = "pending"
    /\ StartPost(Caller)
    /\ UNCHANGED <<obtainVars, pureVars>>

\* Register from the return of post to its own return
Register ==
    /\ Running
    /\ pc[Caller] \in {"postReturn", "postFail"}
    /\ regOut.state = "pending"
    /\ IF pc[Caller] = "postFail"
       THEN /\ regOut' = [state |-> "done", reg |-> <<>>, err |-> "post"]
            /\ UNCHANGED procStatus
       ELSE \E decodes \in BOOLEAN, location \in Locations :
              IF resp[Caller].status # StatusConflict /\ decodes
                    /\ ParseLinksPanics(resp[Caller].link)
              THEN /\ procStatus' = "panic"
                   /\ UNCHANGED regOut
              ELSE /\ regOut' = [state |-> "done",
                                 reg |-> RegisterReturn(resp[Caller], decodes, location).reg,
                                 err |-> RegisterReturn(resp[Caller], decodes, location).err]
                   /\ UNCHANGED procStatus
    /\ pc' = [pc EXCEPT ![Caller] = "done"]
    /\ UNCHANGED <<nonces, snap, drawn, resp, postErr, heads, posts, calls, stored>>
    /\ UNCHANGED <<domains, Solvers, closed, recvCount, responses, errLog, authz,
                   decodeFailed, solveIdx, solved, solveErr, retErr>>
    /\ UNCHANGED <<linkEntries, linkOut, orderDomains, orderOut, csrIn, finOut>>

NextRegister ==
    \/ RegisterCall
    \/ PostCheck(Caller)
    \/ GetNonce(Caller)
    \/ HeadAppend(Caller)
    \/ NonceCheck(Caller)
    \/ NonceRead(Caller)
    \/ NonceWrite(Caller)
    \/ HttpPost(Caller)
    \/ Harvest(Caller)
    \/ Register

SpecRegister == InitRegister /\ [][NextRegister]_vars

----------------------------------------------------------------------------
(* NewClient, and solveChallenges on the client it returns.                *)

\* the Client NewClient returns for a user with a valid key.  The map solvers
\* it fills with the built-in solvers is a local variable the returned literal
\* leaves out, so Client.Solvers is the nil map: no type is registered in it
NewClient(caURL, usr) ==
    LET solvers == Types
    IN  [regURL |-> caURL, user |-> usr, nonces |-> <<>>, Solvers |-> {}]

InitClient ==
    /\ LET c == NewClient("https://ca/new-reg", "usr")
       IN  /\ InitPost(c.nonces, "solve")
           /\ Solvers = c.Solvers
    /\ domains = SubSeq(DomainNames, 1, 1)
    /\ procStatus = "running"
    /\ closed = TRUE
    /\ recvCount = 1
    /\ \E n \in 1 .. MaxChallenges : \E a \in AuthorizationsOver(n) :
         responses = <<[Body |-> a, NewCertURL |-> <<"u1">>, Domain |-> DomainNames[1]]>>
    /\ errLog = {}
    /\ authz = [p \in Procs |-> ZeroAuthz]
    /\ decodeFailed = [p \in Procs |-> FALSE]
    /\ solveIdx = 1
    /\ solved = EmptyBag
    /\ solveErr = <<>>
    /\ retErr = <<>>
    /\ InitPureIdle

SpecClient == InitClient /\ [][NextChoose]_vars

----------------------------------------------------------------------------
(* The claims.                                                             *)

\* Nonce() has handed the signer of p its nonce in this step
Signs(p) == pc[p] = "nonceWrite" /\ pc'[p] = "send"

\* getNonceFromResponse has run in this step on a POST response with a Replay-Nonce
HarvestsNonce(p) == pc[p] = "harvest" /\ pc'[p] # "harvest" /\ resp[p].nonce # <<>>

\* C1: with one caller of post at a time, a successful signature takes exactly
\* one nonce out of the pool, and a POST response that carries a Replay-Nonce
\* header puts exactly one nonce into it, whatever its status.
C1_PoolAccounting ==
    [][\A p \in Procs :
         /\ Signs(p) => Len(nonces') = Len(nonces) - 1
         /\ HarvestsNonce(p) => /\ Len(nonces') = Len(nonces) + 1
                                /\ Last(nonces') = resp[p].nonce[1]]_vars

\* C1 witness: a post that signed and whose 409 response left its nonce in the pool
C1_Witness ==
    /\ pc[Caller] = "postReturn"
    /\ resp[Caller].status = StatusConflict
    /\ resp[Caller].nonce # <<>>
    /\ Len(drawn[Caller]) = calls[Caller]
    /\ Len(nonces) = MaxPool
    /\ Last(nonces) = resp[Caller].nonce[1]

\* C2: in every interleaving of the goroutines of getChallenges no nonce is
\* handed by Nonce() to two signatures, and no nonce that was appended to the
\* pool is lost (it is in the pool or was handed to a signer).
C2_MutualExclusion ==
    /\ \A p, q \in Procs : \A i \in DOMAIN drawn[p] : \A j \in DOMAIN drawn[q] :
         (p # q \/ i # j) => drawn[p][i] # drawn[q][j]
    /\ \A n \in stored :
         n \in Range(nonces) \/ \E p \in Procs : n \in Range(drawn[p])

\* C3: Nonce() never returns its 'No nonce available' error inside a post,
\* also when several goroutines post on the shared jws.
C3_NeverEmptyAtSign == \A p \in Procs : postErr[p] # "sign"

\* the combinations of auth every index of which names a challenge with a
\* registered solver
Covered(auth, registered) ==
    {k \in 1 .. Len(auth.Combinations) :
        \A idx \in Range(auth.Combinations[k]) : ChallengeType(auth, idx) \in registered}

\* C4: chooseSolvers returns solvers for the first combination all of whose
\* challenge indices name challenges with a registered solver, and nil when
\* no combination is covered in full.
C4_FirstCoveredCombination ==
    \A k \in 1 .. Len(responses) :
        (pc[Caller] \in {"solve", "return", "done"} /\ (k < solveIdx \/ solveErr # <<>>)) =>
            LET a == responses[k].Body
                got == chooseSolvers(a, Solvers)
                cov == Covered(a, Solvers)
            IN  IF cov = {} THEN got.isNil
                ELSE /\ ~got.isNil
                     /\ DOMAIN got.m = Range(a.Combinations[MinOf(cov)])

\* the request of goroutine g succeeded: 201 and a body that decoded
RequestSucceeded(g) ==
    /\ resp[g].present
    /\ resp[g].status = StatusCreated
    /\ ~decodeFailed[g]
    /\ pc[g] \in {"sendRes", "done"}

\* C5: when getChallenges returns, every goroutine it started has delivered
\* its outcome, and the slice holds the authorization of every domain whose
\* request succeeded.
C5_AggregatesAfterAll ==
    (Running /\ pc[Caller] \in {"solve", "return", "done"}) =>
        /\ \A g \in Goroutines : pc[g] = "done"
        /\ \A g \in Goroutines :
             RequestSucceeded(g) =>
                 \E k \in 1 .. Len(responses) : responses[k].Domain = domains[g]

\* domain g failed: its request returned an error, a status other than 201
\* or a body that did not decode, or no solver could be chosen for it
DomainFailed(g) ==
    \/ postErr[g] # ""
    \/ resp[g].present /\ resp[g].status # StatusCreated
    \/ decodeFailed[g]
    \/ \E k \in 1 .. Len(responses) :
         /\ responses[k].Domain = domains[g]
         /\ chooseSolvers(responses[k].Body, Solvers).isNil

\* C6: ObtainCertificates returns an error naming every failed domain, and
\* nil only when no domain failed.
C6_ErrorNamesFailedDomains ==
    pc[Caller] = "done" =>
        \A g \in Goroutines : DomainFailed(g) => domains[g] \in Range(retErr)

\* C7: an authorization without a solvable combination stops only its own
\* identifier: every other authorization of the list that has one gets its
\* solvers invoked, wherever it stands in the list.
C7_NoSolverFatalForOneIdentifier ==
    pc[Caller] = "done" =>
        \A k \in 1 .. Len(responses) :
            LET solvers == chooseSolvers(responses[k].Body, Solvers)
            IN  ~solvers.isNil =>
                    \A c \in SolveCalls(responses[k], solvers.m) : BagIn(c, solved)

\* C8: one call of post sends at most one POST and at most one HEAD, the HEAD
\* before the POST, and returns the response of that one POST whatever its status.
C8_PostNeverRetries ==
    \A p \in Procs :
        /\ heads[p] <= 1
        /\ posts[p] <= 1
        /\ pc[p] \in {"head", "headAppend"} => posts[p] = 0
        /\ pc[p] = "postReturn" => resp[p].present /\ posts[p] = 1

\* C8 witness: post returned a 409 after one HEAD and one POST
C8_Witness ==
    /\ pc[Caller] = "postReturn"
    /\ resp[Caller].status = StatusConflict
    /\ heads[Caller] = 1
    /\ posts[Caller] = 1

\* every link entry of the response, in header order
RECURSIVE Flatten(_)
Flatten(ss) == IF Len(ss) = 0 THEN <<>> ELSE ss[1] \o Flatten(Tail(ss))

\* C9: parseLinks maps every relation name of the Link headers of a response
\* to its URL, several entries inside one header value included, the last
\* occurrence of a relation name winning.
C9_EveryRelationMapped ==
    linkOut.done =>
        /\ ~linkOut.panic
        /\ \A rel \in LinkRels :
             LET occ == SelectSeq(Flatten(linkEntries), LAMBDA e : e.rel = rel)
             IN  occ # <<>> => MapGet(linkOut.map, <<rel>>) = <<Last(occ).url>>

C11_ReturnsTerminalStatus ==
    (finOut.state = "done" /\ finOut.err.isNil) =>
        finOut.Order.Status \in {"valid", StatusInvalid}

\* C12: when the order of the finalize response is invalid, UpdateForCSR
\* returns a non-nil error holding the error field of that order, with an
\* empty order; it never returns a nil error with an invalid order.
C12_InvalidSurfacesProblem ==
    finOut.state = "done" =>
        /\ (~finOut.answer.err /\ finOut.answer.Order.Status = StatusInvalid) =>
             /\ ~finOut.err.isNil
             /\ finOut.err.value = finOut.answer.Order.Error
             /\ finOut.Order = ZeroCsrOrder
        /\ finOut.err.isNil => finOut.Order.Status # StatusInvalid

\* C12 witness: the server answered an invalid order with a problem document,
\* and UpdateForCSR returned that problem and no order
C12_Witness ==
    /\ finOut.state = "done"
    /\ ~finOut.answer.err
    /\ finOut.answer.Order.Status = StatusInvalid
    /\ finOut.answer.Order.Error # <<>>
    /\ finOut.err = ErrorOf(finOut.answer.Order.Error)
    /\ finOut.Order = ZeroCsrOrder
    /\ Len(csrIn.csr) = MaxCsrLen

\* C13: Register takes an HTTP 409 response as success: it returns the
\* existing account resource and a nil error.
C13_ConflictIsIdempotentSuccess ==
    (regOut.state = "done" /\ resp[Caller].present /\ resp[Caller].status = StatusConflict) =>
        /\ regOut.err = ""
        /\ regOut.reg # <<>>

\* C14: when post finds the pool empty and the fetch of a nonce fails (the
\* HEAD request errors or its response has no Replay-Nonce header), post
\* returns the error after that one HEAD: it sends no POST, signs nothing and
\* leaves the pool empty.
C14_FailedFetchSendsNothing ==
    \A p \in Procs :
        postErr[p] = "nonce" =>
            /\ pc[p] \in {"postFail", "idle"}
            /\ heads[p] = 1
            /\ posts[p] = 0
            /\ Len(drawn[p]) < calls[p]
            /\ nonces = <<>>

\* C14 witness: a second post, the pool used up by the first, whose HEAD failed
C14_Witness ==
    /\ pc[Caller] = "postFail"
    /\ postErr[Caller] = "nonce"
    /\ calls[Caller] > 1
    /\ Len(drawn[Caller]) = calls[Caller] - 1
    /\ heads[Caller] = 1
    /\ posts[Caller] = 0
    /\ nonces = <<>>

\* C15: in one run of ObtainCertificates over pairwise distinct domains, in
\* every interleaving of the goroutines, Solve is called at most once for a
\* domain and a challenge index.
C15_SolveOncePerChallenge ==
    /\ \A c \in BagToSet(solved) : CopiesIn(c, solved) = 1
    /\ \A c, d \in BagToSet(solved) :
         (c.domain = d.domain /\ c.index = d.index) => c = d

\* C15 witness: ObtainCertificates returned after a challenge of each of
\* several domains was handed to its solver
C15_Witness ==
    /\ pc[Caller] = "done"
    /\ Len(domains) > 1
    /\ \A g \in Goroutines : \E c \in BagToSet(solved) : c.domain = domains[g]

\* C16: the client NewClient returns has a solver registered under
\* "simpleHttp" and under "dvsni", so that solveChallenges finds solvers for
\* an authorization whose first combination names challenges of these types.
C16_BuiltInSolversRegistered ==
    pc[Caller] \in {"return", "done"} =>
        /\ Solvers = Types
        /\ \A k \in 1 .. Len(responses) :
             responses[k].Body.Combinations # <<>> =>
                 /\ ~chooseSolvers(responses[k].Body, Solvers).isNil
                 /\ solveErr = <<>>

\* the request of goroutine g failed: post returned an error, or a status
\* other than 201, or the body did not decode
RequestFailed(g) ==
    \/ postErr[g] # ""
    \/ resp[g].present /\ resp[g].status # StatusCreated
    \/ decodeFailed[g]

\* the messages the collecting loop received from goroutine g: on errc, on resc
ErrorsFrom(g) == {e \in errLog : e.from = g}
ResourcesFrom(g) == {k \in 1 .. Len(responses) : responses[k].Domain = domains[g]}

\* C17: a goroutine of getChallenges sends one message in all over resc and
\* errc; a domain whose request failed sends one error and no resource, so
\* the slice has no entry for a failed domain and no two entries for a domain.
C17_OneMessagePerGoroutine ==
    \A g \in Goroutines :
        /\ Cardinality(ErrorsFrom(g)) + Cardinality(ResourcesFrom(g)) <= 1
        /\ pc[g] = "done" => Cardinality(ErrorsFrom(g)) + Cardinality(ResourcesFrom(g)) = 1
        /\ RequestFailed(g) => ResourcesFrom(g) = {}

\* C18: getChallenges ends cleanly: once it has closed resc and errc, no
\* goroutine is at a send on one of them.
C18_NoSendAfterClose ==
    closed => \A g \in Goroutines : pc[g] \notin SendStates

\* the combinations of auth for which chooseSolvers gets a map as long as the
\* combination; it returns the map of the first of them
Selected(auth, registered) ==
    {k \in 1 .. Len(auth.Combinations) :
        Cardinality(DOMAIN SolversFor(auth, auth.Combinations[k], registered))
            = Len(auth.Combinations[k])}

\* C19: every challenge solveChallenges hands to Solve is named by the
\* combination chooseSolvers selected for its authorization, and the solver
\* called is the one registered for the type of that challenge.
C19_SolvesSelectedCombination ==
    \A c \in BagToSet(solved) :
        \E k \in 1 .. Len(responses) :
            /\ responses[k].Domain = c.domain
            /\ LET a == responses[k].Body
                   sel == Selected(a, Solvers)
               IN  /\ sel # {}
                   /\ c.index \in Range(a.Combinations[MinOf(sel)])
                   /\ c.solver \in Solvers
                   /\ c.solver = ChallengeType(a, c.index)

====
